---- MODULE Spec2Model ----
(***************************************************************************)
(* Multipart transfer orchestration of oss/multipart.go:                   *)
(*   Bucket.UploadFile, Bucket.DownloadFile, Bucket.CompleteMultipartUpload *)
(* and the session calls they make.  One behaviour of the model is one     *)
(* invocation of one of the three entry points (op), from its arguments to *)
(* its return value (ret).  calls is the trace of the calls the invocation *)
(* issued, in order, with their arguments and outcomes.                    *)
(*                                                                         *)
(* Sizes are in abstract units.  MinPartSize and MaxPartSize stand for the *)
(* SDK's 100 KiB and 5 GiB: only their order (1 < Min < Max) matters to    *)
(* the comparisons of the code.                                            *)
(***************************************************************************)
EXTENDS Integers, Sequences, FiniteSets, TLC

VARIABLES
    op,         \* entry point invoked
    pc,         \* position inside the entry point
    ret,        \* return value: Running, Nil or an error
    partSize,   \* argument partSize
    size,       \* size of the local source file (upload) / of the object (download)
    chunks,     \* UploadFile: chunks, the planner's descriptors
    imur,       \* the UploadID of the InitiateMultipartUploadResult
    err,        \* UploadFile: the error held while the session is aborted
    idx,        \* UploadFile: position of the range loop over chunks
    parts,      \* the []UploadPart slice (UploadFile's, or the caller's)
    partsIn,    \* parts as they were when CompleteMultipartUpload was entered
    calls,      \* trace of the calls issued so far
    meta,       \* DownloadFile: Content-Length value of the metadata probe
    objectSize, \* DownloadFile: objectSize
    i,          \* DownloadFile: loop variable i
    options,    \* DownloadFile: the options slice
    fdState,    \* DownloadFile: "none", "open" or "closed"
    fdCloses,   \* DownloadFile: number of fd.Close() executed
    fdPos,      \* DownloadFile: write offset of fd
    fileData,   \* DownloadFile: content of the local file at filePath
    file0       \* DownloadFile: content of that file before the call

vars == <<op, pc, ret, partSize, size, chunks, imur, err, idx, parts, partsIn, calls,
          meta, objectSize, i, options, fdState, fdCloses, fdPos, fileData, file0>>

uploadVars == <<chunks, imur, err, idx, parts, partsIn>>
downloadVars == <<meta, objectSize, i, options, fdState, fdCloses, fdPos, fileData, file0>>

----------------------------------------------------------------------------
(* Program constants (scaled) and the bounds of the model.                 *)

MinPartSize == 2
MaxPartSize == 4

MaxFileSize == 7
MaxObjectSize == 11
MaxParts == 3
MaxPartNumber == 2
MaxStale == 2

UploadIDs == {"u1", "u2"}
NoUploadID == ""
ETags == {"e1", "e2"}

PartSizes == -1 .. MaxPartSize + 1

Running == [fn |-> "running", n |-> 0]
Nil == [fn |-> "nil", n |-> 0]
Err(f, k) == [fn |-> f, n |-> k]
ErrPartSize == Err("part size invalid range", 0)

Min(a, b) == IF a < b THEN a ELSE b

\* One entry of the call trace.
Call(f, id, a, success, o) == [fn |-> f, id |-> id, arg |-> a, ok |-> success, out |-> o]

\* The positions in the trace of the calls of f.
CallIdx(f) == {k \in 1..Len(calls) : calls[k].fn = f}

----------------------------------------------------------------------------
(* PartPlanner: SplitFileByPartSize.                                       *)

RECURSIVE PlanFrom(_, _, _, _)
PlanFrom(offset, number, S, P) ==
    IF offset >= S THEN <<>>
    ELSE <<[Number |-> number, Offset |-> offset, Size |-> Min(P, S - offset)]>>
         \o PlanFrom(offset + P, number + 1, S, P)

\* The results SplitFileByPartSize(filePath, partSize) can return: an error, or
\* the descriptors; a zero-size source gives one zero-size descriptor or fails.
SplitFileByPartSize(S, P) ==
    {[err |-> TRUE, chunks |-> <<>>]}
    \cup (IF S = 0
          THEN {[err |-> FALSE, chunks |-> <<[Number |-> 1, Offset |-> 0, Size |-> 0]>>]}
          ELSE {[err |-> FALSE, chunks |-> PlanFrom(0, 1, S, P)]})

----------------------------------------------------------------------------
(* sort.Sort(uploadParts(parts)): sorts by PartNumber; the order of equal   *)
(* elements is whatever the algorithm leaves (sort.Sort is not stable).     *)

Perms(n) == {p \in [1..n -> 1..n] : \A a, b \in 1..n : p[a] = p[b] => a = b}

IsSortedByNumber(s) == \A a, b \in 1..Len(s) : a < b => s[a].PartNumber <= s[b].PartNumber

SortSort(s) ==
    {t \in {[k \in 1..Len(s) |-> s[p[k]]] : p \in Perms(Len(s))} : IsSortedByNumber(t)}

----------------------------------------------------------------------------
(* CompleteMultipartUpload (lines 157-180): the caller's slice is sorted in *)
(* place, marshalled and posted; success is whether the call returns a nil *)
(* error.                                                                  *)

CompleteMultipartUpload(success) ==
    /\ partsIn' = parts
    /\ \E sorted \in SortSort(parts) :
        /\ parts' = sorted
        /\ calls' = Append(calls, Call("CompleteMultipartUpload", imur, sorted, success, <<>>))

\* A caller's own call of CompleteMultipartUpload(imur, parts).
CompleteMultipartUpload_Call ==
    /\ op = "CompleteMultipartUpload" /\ pc = "complete"
    /\ \E success \in BOOLEAN :
        /\ CompleteMultipartUpload(success)
        /\ ret' = IF success THEN Nil ELSE Err("CompleteMultipartUpload", 0)
    /\ pc' = "done"
    /\ UNCHANGED <<op, partSize, size, chunks, imur, err, idx, downloadVars>>

----------------------------------------------------------------------------
(* UploadFile (lines 262-294)                                              *)

UploadPartSizeInvalid(p) == p < MinPartSize \/ p > MaxPartSize

\* lines 263-265
UploadFile_Validate ==
    /\ op = "UploadFile" /\ pc = "validate"
    /\ IF UploadPartSizeInvalid(partSize)
       THEN pc' = "done" /\ ret' = ErrPartSize
       ELSE pc' = "split" /\ ret' = ret
    /\ UNCHANGED <<op, partSize, size, calls, uploadVars, downloadVars>>

\* UploadFile_Split planning with the minimum part size instead of partSize.
UploadFile_Split_MinPartSize ==
    /\ op = "UploadFile" /\ pc = "split"
    /\ \E r \in SplitFileByPartSize(size, MinPartSize) :
          /\ calls' = Append(calls, Call("SplitFileByPartSize", NoUploadID, MinPartSize, ~r.err, r.chunks))
          /\ IF r.err
             THEN pc' = "done" /\ ret' = Err("SplitFileByPartSize", 0) /\ chunks' = chunks
             ELSE pc' = "initiate" /\ ret' = ret /\ chunks' = r.chunks
    /\ UNCHANGED <<op, partSize, size, imur, err, idx, parts, partsIn, downloadVars>>

\* lines 267-270
UploadFile_Split ==
    /\ op = "UploadFile" /\ pc = "split"
    /\ \E r \in SplitFileByPartSize(size, partSize) :
          /\ calls' = Append(calls, Call("SplitFileByPartSize", NoUploadID, partSize, ~r.err, r.chunks))
          /\ IF r.err
             THEN pc' = "done" /\ ret' = Err("SplitFileByPartSize", 0) /\ chunks' = chunks
             ELSE pc' = "initiate" /\ ret' = ret /\ chunks' = r.chunks
    /\ UNCHANGED <<op, partSize, size, imur, err, idx, parts, partsIn, downloadVars>>

\* UploadFile_Initiate aborting the (unopened) session when Initiate fails.
UploadFile_Initiate_AbortOnFailure ==
    /\ op = "UploadFile" /\ pc = "initiate"
    /\ \/ /\ calls' = Append(calls, Call("InitiateMultipartUpload", NoUploadID, <<>>, FALSE, NoUploadID))
          /\ pc' = "abort" /\ ret' = ret /\ err' = Err("InitiateMultipartUpload", 0)
          /\ UNCHANGED <<imur, idx, parts>>
       \/ \E u \in UploadIDs :
          /\ calls' = Append(calls, Call("InitiateMultipartUpload", NoUploadID, <<>>, TRUE, u))
          /\ imur' = u /\ parts' = <<>> /\ idx' = 1
          /\ pc' = "loop" /\ ret' = ret /\ err' = err
    /\ UNCHANGED <<op, partSize, size, chunks, partsIn, downloadVars>>

\* lines 272-277: InitiateMultipartUpload, then parts := []UploadPart{}
UploadFile_Initiate ==
    /\ op = "UploadFile" /\ pc = "initiate"
    /\ \/ /\ calls' = Append(calls, Call("InitiateMultipartUpload", NoUploadID, <<>>, FALSE, NoUploadID))
          /\ pc' = "done" /\ ret' = Err("InitiateMultipartUpload", 0)
          /\ UNCHANGED <<imur, idx, parts>>
       \/ \E u \in UploadIDs :
          /\ calls' = Append(calls, Call("InitiateMultipartUpload", NoUploadID, <<>>, TRUE, u))
          /\ imur' = u /\ parts' = <<>> /\ idx' = 1
          /\ pc' = "loop" /\ ret' = ret
    /\ UNCHANGED <<op, partSize, size, chunks, err, partsIn, downloadVars>>

\* UploadFile_UploadPart with a failed part skipped instead of ending the run.
UploadFile_UploadPart_SkipFailed ==
    /\ op = "UploadFile" /\ pc = "loop" /\ idx <= Len(chunks)
    /\ LET chunk == chunks[idx] IN
       \/ /\ calls' = Append(calls, Call("UploadPartFromFile", imur, chunk, FALSE, <<>>))
          /\ idx' = idx + 1
          /\ UNCHANGED <<pc, err, parts>>
       \/ \E etag \in ETags :
            LET part == [PartNumber |-> chunk.Number, ETag |-> etag] IN
            /\ calls' = Append(calls, Call("UploadPartFromFile", imur, chunk, TRUE, part))
            /\ parts' = Append(parts, part)
            /\ idx' = idx + 1
            /\ UNCHANGED <<pc, err>>
    /\ UNCHANGED <<op, ret, partSize, size, chunks, imur, partsIn, downloadVars>>

\* UploadFile_UploadPart returning the error of a failed part without aborting.
UploadFile_UploadPart_NoAbort ==
    /\ op = "UploadFile" /\ pc = "loop" /\ idx <= Len(chunks)
    /\ LET chunk == chunks[idx] IN
       \/ /\ calls' = Append(calls, Call("UploadPartFromFile", imur, chunk, FALSE, <<>>))
          /\ ret' = Err("UploadPartFromFile", chunk.Number)
          /\ pc' = "done"
          /\ UNCHANGED <<idx, parts>>
       \/ \E etag \in ETags :
            LET part == [PartNumber |-> chunk.Number, ETag |-> etag] IN
            /\ calls' = Append(calls, Call("UploadPartFromFile", imur, chunk, TRUE, part))
            /\ parts' = Append(parts, part)
            /\ idx' = idx + 1
            /\ UNCHANGED <<pc, ret>>
    /\ UNCHANGED <<op, err, partSize, size, chunks, imur, partsIn, downloadVars>>

\* UploadFile_UploadPart walking the descriptors from the last to the first.
UploadFile_UploadPart_Reversed ==
    /\ op = "UploadFile" /\ pc = "loop" /\ idx <= Len(chunks)
    /\ LET chunk == chunks[Len(chunks) + 1 - idx] IN
       \/ /\ calls' = Append(calls, Call("UploadPartFromFile", imur, chunk, FALSE, <<>>))
          /\ err' = Err("UploadPartFromFile", chunk.Number)
          /\ pc' = "abort"
          /\ UNCHANGED <<idx, parts>>
       \/ \E etag \in ETags :
            LET part == [PartNumber |-> chunk.Number, ETag |-> etag] IN
            /\ calls' = Append(calls, Call("UploadPartFromFile", imur, chunk, TRUE, part))
            /\ parts' = Append(parts, part)
            /\ idx' = idx + 1
            /\ UNCHANGED <<pc, err>>
    /\ UNCHANGED <<op, ret, partSize, size, chunks, imur, partsIn, downloadVars>>

\* UploadFile_UploadPart numbering the part it collects from 0.
UploadFile_UploadPart_ZeroBasedNumber ==
    /\ op = "UploadFile" /\ pc = "loop" /\ idx <= Len(chunks)
    /\ LET chunk == chunks[idx] IN
       \/ /\ calls' = Append(calls, Call("UploadPartFromFile", imur, chunk, FALSE, <<>>))
          /\ err' = Err("UploadPartFromFile", chunk.Number)
          /\ pc' = "abort"
          /\ UNCHANGED <<idx, parts>>
       \/ \E etag \in ETags :
            LET part == [PartNumber |-> chunk.Number, ETag |-> etag] IN
            /\ calls' = Append(calls, Call("UploadPartFromFile", imur, chunk, TRUE, part))
            /\ parts' = Append(parts, [part EXCEPT !.PartNumber = chunk.Number - 1])
            /\ idx' = idx + 1
            /\ UNCHANGED <<pc, err>>
    /\ UNCHANGED <<op, ret, partSize, size, chunks, imur, partsIn, downloadVars>>

\* lines 278-286: one iteration of the loop over chunks
UploadFile_UploadPart ==
    /\ op = "UploadFile" /\ pc = "loop" /\ idx <= Len(chunks)
    /\ LET chunk == chunks[idx] IN
       \/ /\ calls' = Append(calls, Call("UploadPartFromFile", imur, chunk, FALSE, <<>>))
          /\ err' = Err("UploadPartFromFile", chunk.Number)
          /\ pc' = "abort"
          /\ UNCHANGED <<idx, parts>>
       \/ \E etag \in ETags :
            LET part == [PartNumber |-> chunk.Number, ETag |-> etag] IN
            /\ calls' = Append(calls, Call("UploadPartFromFile", imur, chunk, TRUE, part))
            /\ parts' = Append(parts, part)
            /\ idx' = idx + 1
            /\ UNCHANGED <<pc, err>>
    /\ UNCHANGED <<op, ret, partSize, size, chunks, imur, partsIn, downloadVars>>

\* UploadFile_Complete returning the error of Complete without aborting.
UploadFile_Complete_NoAbort ==
    /\ op = "UploadFile" /\ pc = "loop" /\ idx > Len(chunks)
    /\ \E success \in BOOLEAN :
        /\ CompleteMultipartUpload(success)
        /\ ret' = IF success THEN Nil ELSE Err("CompleteMultipartUpload", 0)
    /\ pc' = "done"
    /\ UNCHANGED <<op, partSize, size, chunks, imur, err, idx, downloadVars>>

\* UploadFile_Complete cleaning the session up after a successful Complete too.
UploadFile_Complete_AlwaysAbort ==
    /\ op = "UploadFile" /\ pc = "loop" /\ idx > Len(chunks)
    /\ \E success \in BOOLEAN :
        /\ CompleteMultipartUpload(success)
        /\ err' = IF success THEN Nil ELSE Err("CompleteMultipartUpload", 0)
    /\ pc' = "abort" /\ ret' = ret
    /\ UNCHANGED <<op, partSize, size, chunks, imur, idx, downloadVars>>

\* lines 288-293: after the loop
UploadFile_Complete ==
    /\ op = "UploadFile" /\ pc = "loop" /\ idx > Len(chunks)
    /\ \E success \in BOOLEAN :
        /\ CompleteMultipartUpload(success)
        /\ IF success
           THEN pc' = "done" /\ ret' = Nil /\ err' = err
           ELSE pc' = "abort" /\ ret' = ret /\ err' = Err("CompleteMultipartUpload", 0)
    /\ UNCHANGED <<op, partSize, size, chunks, imur, idx, downloadVars>>

\* UploadFile_Abort returning the error of AbortMultipartUpload when it has one.
UploadFile_Abort_ReturnsAbortError ==
    /\ op = "UploadFile" /\ pc = "abort"
    /\ \E aborted \in BOOLEAN :
        /\ calls' = Append(calls, Call("AbortMultipartUpload", imur, <<>>, aborted, <<>>))
        /\ ret' = IF aborted THEN err ELSE Err("AbortMultipartUpload", 0)
    /\ pc' = "done"
    /\ UNCHANGED <<op, partSize, size, chunks, imur, err, idx, parts, partsIn, downloadVars>>

\* lines 282-283 and 290-291: bucket.AbortMultipartUpload(imur); return err.
\* What AbortMultipartUpload returns is dropped.
UploadFile_Abort ==
    /\ op = "UploadFile" /\ pc = "abort"
    /\ \E aborted \in BOOLEAN :
        calls' = Append(calls, Call("AbortMultipartUpload", imur, <<>>, aborted, <<>>))
    /\ ret' = err
    /\ pc' = "done"
    /\ UNCHANGED <<op, partSize, size, chunks, imur, err, idx, parts, partsIn, downloadVars>>

----------------------------------------------------------------------------
(* Helpers of DownloadFile.                                                *)

Digits == <<"0", "1", "2", "3", "4", "5", "6", "7", "8", "9">>

\* The Content-Length header the service writes for a size: decimal digits.
RECURSIVE Itoa(_)
Itoa(n) == IF n < 10 THEN <<Digits[n + 1]>> ELSE Itoa(n \div 10) \o <<Digits[(n % 10) + 1]>>

IsDigit(c) == \E d \in 1..10 : Digits[d] = c
DigitVal(c) == (CHOOSE d \in 1..10 : Digits[d] = c) - 1

RECURSIVE ParseUint(_, _)
ParseUint(s, acc) ==
    IF s = <<>> THEN acc ELSE ParseUint(Tail(s), acc * 10 + DigitVal(Head(s)))

\* strconv.ParseInt(s, 10, 0): an optional sign, then decimal digits only;
\* a syntax error gives the value 0 and an error.
ParseInt(s) ==
    LET signed == s # <<>> /\ Head(s) \in {"+", "-"}
        body == IF signed THEN Tail(s) ELSE s
    IN IF body = <<>> \/ \E k \in 1..Len(body) : ~IsDigit(body[k])
       THEN [val |-> 0, err |-> TRUE]
       ELSE [val |-> IF signed /\ Head(s) = "-" THEN 0 - ParseUint(body, 0) ELSE ParseUint(body, 0),
             err |-> FALSE]

\* meta.Get(HTTPHeaderContentLength) after a successful probe: the size in
\* decimal, nothing (the header is missing) or text that is no number.
ContentLengthValues(S) == {Itoa(S), <<>>, <<"x">>}

\* GetPartEnd(begin, total, per)
GetPartEnd(begin, total, per) == Min(begin + per - 1, total - 1)

\* Range(start, end): the option asking for the bytes start..end, both included.
Range(a, b) == [name |-> "Range", start |-> a, end |-> b]
CallerOption == [name |-> "If-Match", start |-> 0, end |-> 0]

\* The range a GetObject request asks for: options are applied in order onto one
\* header map, so the last Range option is the one sent.
RECURSIVE EffectiveRange(_)
EffectiveRange(opts) ==
    IF opts = <<>> THEN Range(0, -1)
    ELSE IF opts[Len(opts)].name = "Range" THEN opts[Len(opts)]
    ELSE EffectiveRange(SubSeq(opts, 1, Len(opts) - 1))

\* The object's content: the byte at offset k is written k.
Bytes(a, b) == [k \in 1..(b - a + 1) |-> a + k - 1]

\* fd.Write of b at offset pos: overwrites, extends the file when it ends sooner.
WriteAt(f, pos, b) ==
    [k \in 1..(IF Len(f) > pos + Len(b) THEN Len(f) ELSE pos + Len(b)) |->
        IF k > pos /\ k <= pos + Len(b) THEN b[k - pos] ELSE f[k]]

StaleByte == 0 - 1

----------------------------------------------------------------------------
(* DownloadFile (lines 306-338)                                            *)

DownloadPartSizeInvalid(p) == p < 1 \/ p > MaxPartSize

\* DownloadFile_Validate with the destination opened before the size is checked.
DownloadFile_Validate_AfterOpen ==
    /\ op = "DownloadFile" /\ pc = "validate"
    /\ IF DownloadPartSizeInvalid(partSize)
       THEN /\ pc' = "done" /\ ret' = ErrPartSize
            /\ calls' = Append(calls, Call("os.OpenFile", NoUploadID, <<>>, TRUE, <<>>))
       ELSE pc' = "meta" /\ ret' = ret /\ calls' = calls
    /\ UNCHANGED <<op, partSize, size, uploadVars, downloadVars>>

\* lines 307-309
DownloadFile_Validate ==
    /\ op = "DownloadFile" /\ pc = "validate"
    /\ IF DownloadPartSizeInvalid(partSize)
       THEN pc' = "done" /\ ret' = ErrPartSize
       ELSE pc' = "meta" /\ ret' = ret
    /\ UNCHANGED <<op, partSize, size, calls, uploadVars, downloadVars>>

\* lines 311-314
DownloadFile_Meta ==
    /\ op = "DownloadFile" /\ pc = "meta"
    /\ \/ /\ calls' = Append(calls, Call("GetObjectDetailedMeta", NoUploadID, <<>>, FALSE, <<>>))
          /\ pc' = "done" /\ ret' = Err("GetObjectDetailedMeta", 0)
          /\ meta' = meta
       \/ \E cl \in ContentLengthValues(size) :
          /\ calls' = Append(calls, Call("GetObjectDetailedMeta", NoUploadID, <<>>, TRUE, cl))
          /\ meta' = cl
          /\ pc' = "open" /\ ret' = ret
    /\ UNCHANGED <<op, partSize, size, uploadVars, objectSize, i, options,
                   fdState, fdCloses, fdPos, fileData, file0>>

\* lines 316-324: os.OpenFile(filePath, O_WRONLY|O_CREATE), defer fd.Close(),
\* objectSize from the header (the error of ParseInt is not looked at), i := 0
DownloadFile_Open ==
    /\ op = "DownloadFile" /\ pc = "open"
    /\ \/ /\ calls' = Append(calls, Call("os.OpenFile", NoUploadID, <<>>, FALSE, <<>>))
          /\ pc' = "done" /\ ret' = Err("os.OpenFile", 0)
          /\ UNCHANGED <<objectSize, i, fdState, fdPos>>
       \/ /\ calls' = Append(calls, Call("os.OpenFile", NoUploadID, <<>>, TRUE, <<>>))
          /\ fdState' = "open" /\ fdPos' = 0
          /\ objectSize' = ParseInt(meta).val
          /\ i' = 0
          /\ pc' = "loop" /\ ret' = ret
    /\ UNCHANGED <<op, partSize, size, uploadVars, meta, options, fdCloses, fileData, file0>>

\* ReturnClosing without the deferred fd.Close().
ReturnNotClosing(e) ==
    /\ ret' = e
    /\ pc' = "done"
    /\ UNCHANGED <<fdState, fdCloses>>

\* A return after line 320: the deferred fd.Close() runs.
ReturnClosing(e) ==
    /\ ret' = e
    /\ pc' = "done"
    /\ fdState' = "closed"
    /\ fdCloses' = fdCloses + 1

\* DownloadFile_Range going on to the next range when GetObject fails.
DownloadFile_Range_ContinueOnError ==
    /\ op = "DownloadFile" /\ pc = "loop" /\ i < objectSize
    /\ LET option == Range(i, GetPartEnd(i, objectSize, partSize))
           opts == Append(options, option)
           asked == EffectiveRange(opts)
           body == Bytes(asked.start, asked.end)
       IN
       /\ options' = opts
       /\ \/ /\ calls' = Append(calls, Call("GetObject", NoUploadID, opts, FALSE, <<>>))
             /\ i' = i + partSize
             /\ UNCHANGED <<pc, ret, fdState, fdCloses, fdPos, fileData>>
          \/ \E n \in 0..Len(body) :
             /\ calls' = Append(calls, Call("GetObject", NoUploadID, opts, TRUE, body))
             /\ fileData' = WriteAt(fileData, fdPos, SubSeq(body, 1, n))
             /\ fdPos' = fdPos + n
             /\ ReturnClosing(Err("io.CopyBuffer", 0))
             /\ i' = i
          \/ /\ calls' = Append(calls, Call("GetObject", NoUploadID, opts, TRUE, body))
             /\ fileData' = WriteAt(fileData, fdPos, body)
             /\ fdPos' = fdPos + Len(body)
             /\ i' = i + partSize
             /\ UNCHANGED <<pc, ret, fdState, fdCloses>>
    /\ UNCHANGED <<op, partSize, size, uploadVars, meta, objectSize, file0>>

\* lines 324-336: one iteration of the loop
DownloadFile_Range ==
    /\ op = "DownloadFile" /\ pc = "loop" /\ i < objectSize
    /\ LET option == Range(i, GetPartEnd(i, objectSize, partSize))
           opts == Append(options, option)
           asked == EffectiveRange(opts)
           body == Bytes(asked.start, asked.end)
       IN
       /\ options' = opts
       /\ \/ \* GetObject fails
             /\ calls' = Append(calls, Call("GetObject", NoUploadID, opts, FALSE, <<>>))
             /\ ReturnClosing(Err("GetObject", Cardinality(CallIdx("GetObject")) + 1))
             /\ UNCHANGED <<i, fdPos, fileData>>
          \/ \* GetObject succeeds, io.CopyBuffer fails after n bytes
             \E n \in 0..Len(body) :
             /\ calls' = Append(calls, Call("GetObject", NoUploadID, opts, TRUE, body))
             /\ fileData' = WriteAt(fileData, fdPos, SubSeq(body, 1, n))
             /\ fdPos' = fdPos + n
             /\ ReturnClosing(Err("io.CopyBuffer", 0))
             /\ i' = i
          \/ \* both succeed
             /\ calls' = Append(calls, Call("GetObject", NoUploadID, opts, TRUE, body))
             /\ fileData' = WriteAt(fileData, fdPos, body)
             /\ fdPos' = fdPos + Len(body)
             /\ i' = i + partSize
             /\ UNCHANGED <<pc, ret, fdState, fdCloses>>
    /\ UNCHANGED <<op, partSize, size, uploadVars, meta, objectSize, file0>>

\* line 337: the loop is over
DownloadFile_Return ==
    /\ op = "DownloadFile" /\ pc = "loop" /\ ~(i < objectSize)
    /\ ReturnClosing(Nil)
    /\ UNCHANGED <<op, partSize, size, calls, uploadVars, meta, objectSize, i, options,
                   fdPos, fileData, file0>>

----------------------------------------------------------------------------

InitCommon ==
    /\ ret = Running /\ calls = <<>> /\ err = Nil
    /\ chunks = <<>> /\ idx = 0 /\ partsIn = <<>>
    /\ meta = <<>> /\ objectSize = 0 /\ i = 0
    /\ fdState = "none" /\ fdCloses = 0 /\ fdPos = 0

InitUpload ==
    /\ op = "UploadFile" /\ pc = "validate"
    /\ partSize \in PartSizes
    /\ size \in 0 .. MaxFileSize
    /\ imur = NoUploadID /\ parts = <<>>
    /\ options = <<>> /\ fileData = <<>>

InitDownload ==
    /\ op = "DownloadFile" /\ pc = "validate"
    /\ partSize \in PartSizes
    /\ size \in 0 .. MaxObjectSize
    /\ imur = NoUploadID /\ parts = <<>>
    /\ options \in {<<>>, <<CallerOption>>}
    /\ fileData \in {[k \in 1..n |-> StaleByte] : n \in 0..MaxStale}

\* The parts a caller can hand to CompleteMultipartUpload.
PartResults == [PartNumber : 1..MaxPartNumber, ETag : ETags]
PartLists == UNION {[1..n -> PartResults] : n \in 0..MaxParts}

InitComplete ==
    /\ op = "CompleteMultipartUpload" /\ pc = "complete"
    /\ partSize = 0 /\ size = 0
    /\ imur \in UploadIDs
    /\ parts \in PartLists
    /\ options = <<>> /\ fileData = <<>>

Init == InitCommon /\ (InitUpload \/ InitDownload \/ InitComplete) /\ file0 = fileData

Next ==
    \/ UploadFile_Validate
    \/ UploadFile_Split
    \/ UploadFile_Initiate
    \/ UploadFile_UploadPart
    \/ UploadFile_Complete
    \/ UploadFile_Abort
    \/ DownloadFile_Validate
    \/ DownloadFile_Meta
    \/ DownloadFile_Open
    \/ DownloadFile_Range
    \/ DownloadFile_Return
    \/ CompleteMultipartUpload_Call

Spec == Init /\ [][Next]_vars

----------------------------------------------------------------------------
(* Reading the call trace.                                                 *)

FailedPartIdx == {k \in CallIdx("UploadPartFromFile") : ~calls[k].ok}
FailedCompleteIdx == {k \in CallIdx("CompleteMultipartUpload") : ~calls[k].ok}

\* The calls made against a session handle.
SessionFns == {"UploadPartFromFile", "CompleteMultipartUpload", "AbortMultipartUpload"}
SessionIdx == {k \in 1..Len(calls) : calls[k].fn \in SessionFns}

\* The handle InitiateMultipartUpload returned in this run.
InitiatedID ==
    LET k == CHOOSE j \in CallIdx("InitiateMultipartUpload") : calls[j].ok IN calls[k].out

----------------------------------------------------------------------------
(* Claims                                                                  *)

\* C1: in every run of UploadFile, CompleteMultipartUpload is called only after
\* the part upload of every planned descriptor has succeeded; after a failed
\* UploadPartFromFile neither CompleteMultipartUpload nor another part upload
\* is ever issued.
C1_CompleteOnlyAfterAllParts ==
    op = "UploadFile" =>
        /\ \A k \in CallIdx("CompleteMultipartUpload") :
              \A c \in 1..Len(chunks) :
                 \E j \in 1..(k - 1) :
                    /\ calls[j].fn = "UploadPartFromFile"
                    /\ calls[j].ok
                    /\ calls[j].arg = chunks[c]
        /\ \A k \in FailedPartIdx :
              \A j \in (k + 1)..Len(calls) :
                 calls[j].fn \notin {"UploadPartFromFile", "CompleteMultipartUpload"}

\* C1 witness: a finished run whose third part upload failed after two succeeded.
C1_Witness ==
    /\ op = "UploadFile" /\ pc = "done"
    /\ \E k \in FailedPartIdx : calls[k].arg.Number = 3
    /\ Len(chunks) >= 4

\* C2: when a part upload fails inside UploadFile, AbortMultipartUpload is called
\* exactly once, with the handle InitiateMultipartUpload returned, and UploadFile
\* returns the error of the failed part upload, whether Abort succeeds or fails.
C2_PartFailureAbortsOnce ==
    (op = "UploadFile" /\ pc = "done" /\ FailedPartIdx # {}) =>
        /\ Cardinality(CallIdx("AbortMultipartUpload")) = 1
        /\ \A a \in CallIdx("AbortMultipartUpload") : calls[a].id = InitiatedID
        /\ \A k \in FailedPartIdx : ret = Err("UploadPartFromFile", calls[k].arg.Number)

\* C2 witness: the second part failed and the Abort that followed failed too.
C2_Witness ==
    /\ op = "UploadFile" /\ pc = "done"
    /\ \E k \in FailedPartIdx : calls[k].arg.Number = 2
    /\ \E a \in CallIdx("AbortMultipartUpload") : ~calls[a].ok

\* C3: when all part uploads succeed and CompleteMultipartUpload fails, UploadFile
\* calls AbortMultipartUpload exactly once, on the same handle and after the
\* Complete call, and returns the error of Complete, whether Abort succeeds or
\* fails.
C3_CompleteFailureAbortsOnce ==
    (op = "UploadFile" /\ pc = "done" /\ FailedPartIdx = {} /\ FailedCompleteIdx # {}) =>
        /\ Cardinality(CallIdx("AbortMultipartUpload")) = 1
        /\ \A a \in CallIdx("AbortMultipartUpload") :
              /\ calls[a].id = InitiatedID
              /\ \A k \in FailedCompleteIdx : k < a /\ calls[k].id = calls[a].id
        /\ ret = Err("CompleteMultipartUpload", 0)

\* C3 witness: two parts uploaded, Complete failed, and the Abort failed too.
C3_Witness ==
    /\ op = "UploadFile" /\ pc = "done"
    /\ Len(parts) >= 2 /\ FailedPartIdx = {} /\ FailedCompleteIdx # {}
    /\ \E a \in CallIdx("AbortMultipartUpload") : ~calls[a].ok

\* C4: in every run of UploadFile every call against the session carries the
\* handle of that run, a successful CompleteMultipartUpload or any
\* AbortMultipartUpload is the last call against it, and AbortMultipartUpload
\* is called at most once.
C4_SingleTerminalEvent ==
    op = "UploadFile" =>
        /\ \A k \in SessionIdx : calls[k].id = InitiatedID
        /\ \A j, k \in SessionIdx :
              j < k => /\ ~(calls[j].fn = "CompleteMultipartUpload" /\ calls[j].ok)
                       /\ calls[j].fn # "AbortMultipartUpload"
        /\ Cardinality(CallIdx("AbortMultipartUpload")) <= 1

\* C4 witness: a run that returned nil after two part uploads and a successful
\* Complete.
C4_Witness ==
    /\ op = "UploadFile" /\ pc = "done" /\ ret = Nil
    /\ Len(parts) >= 2
    /\ \E k \in CallIdx("CompleteMultipartUpload") : calls[k].ok /\ k = Len(calls)

\* C5: when UploadFile or DownloadFile rejects its partSize argument it has had
\* no other effect: no call of any kind was issued, no session handle is held
\* and the destination file was neither opened nor written.
C5_RejectionHasNoEffect ==
    (op \in {"UploadFile", "DownloadFile"} /\ ret = ErrPartSize) =>
        /\ calls = <<>>
        /\ imur = NoUploadID
        /\ fdState = "none" /\ fdCloses = 0
        /\ fileData = file0

\* C5 witness: DownloadFile rejected a chunk size above the maximum while a
\* file existed at filePath.
C5_Witness ==
    /\ op = "DownloadFile" /\ ret = ErrPartSize
    /\ partSize > MaxPartSize /\ file0 # <<>>

\* C6: UploadFile rejects partSize exactly when partSize <= MinPartSize or
\* partSize > MaxPartSize (the interval (MinPartSize, MaxPartSize] of its error
\* message).
C6_RejectsOutsideHalfOpenInterval ==
    (op = "UploadFile" /\ pc # "validate") =>
        ((ret = ErrPartSize) <=> (partSize <= MinPartSize \/ partSize > MaxPartSize))

\* The descriptors cs tile [0, S) in strides of P.
Tiles(cs, S, P) ==
    /\ Len(cs) >= 1
    /\ \A k \in 1..Len(cs) :
          /\ cs[k].Number = k
          /\ cs[k].Offset = (k - 1) * P
          /\ k < Len(cs) => cs[k].Size = P
          /\ k = Len(cs) => cs[k].Size \in 1..P
          /\ cs[k].Offset + cs[k].Size <= S
    /\ \A b \in 0..(S - 1) :
          Cardinality({k \in 1..Len(cs) : cs[k].Offset <= b /\ b < cs[k].Offset + cs[k].Size}) = 1

\* C7: for a source of size S >= 1 and an accepted part size P, the descriptors
\* UploadFile obtains from the planner tile [0, S): offsets 0, P, 2P, ..., every
\* descriptor but the last of size P, the last of size in (0, P], ordinals 1..N.
C7_DescriptorsTileSource ==
    (op = "UploadFile" /\ size >= 1 /\ \E k \in CallIdx("SplitFileByPartSize") : calls[k].ok) =>
        Tiles(chunks, size, partSize)

\* C7 witness: three or more descriptors, the last one shorter than partSize.
C7_Witness ==
    /\ op = "UploadFile" /\ pc = "loop"
    /\ Len(chunks) >= 3
    /\ chunks[Len(chunks)].Size < partSize

\* The GetObject calls of the run, in order.
GetObjectCalls == SelectSeq(calls, LAMBDA c : c.fn = "GetObject")

\* The ranges [i, min(i+C-1, S-1)] for i = 0, C, 2C, ... < S.
ExpectedRanges(S, C) ==
    [k \in 1..((S + C - 1) \div C) |-> Range((k - 1) * C, Min(k * C - 1, S - 1))]

\* The ranged reads issued so far are the first expected ranges of an object of
\* size S, each read succeeded, and what was written is what they returned.
RangesInOrder(S) ==
    LET G == GetObjectCalls
        E == ExpectedRanges(S, partSize)
    IN /\ Len(G) <= Len(E)
       /\ \A k \in 1..Len(G) : G[k].ok /\ EffectiveRange(G[k].arg) = E[k]
       /\ fdPos = (IF G = <<>> THEN 0 ELSE E[Len(G)].end + 1)
       /\ SubSeq(fileData, 1, fdPos) = Bytes(0, fdPos - 1)

\* C8: for an object of size S >= 1, a DownloadFile run in which every read
\* succeeds requests exactly the ranges [i, min(i+C-1, S-1)], i = 0, C, 2C, ...,
\* in ascending order, each written to the sink before the next is requested,
\* and ends having written S bytes.
C8_RangesTileObject ==
    (op = "DownloadFile" /\ size >= 1) =>
        /\ pc = "loop" => RangesInOrder(size)
        /\ (pc = "done" /\ ret = Nil) =>
              /\ RangesInOrder(size)
              /\ Len(GetObjectCalls) = Len(ExpectedRanges(size, partSize))
              /\ fdPos = size

\* C8 where the probe's Content-Length is the decimal size of the object: the
\* statement of C8 holds of every such run.
C8_HoldsWhenSizeIsParsed ==
    (op = "DownloadFile" /\ size >= 1 /\ meta = Itoa(size)) =>
        /\ pc = "loop" => RangesInOrder(size)
        /\ (pc = "done" /\ ret = Nil) =>
              /\ RangesInOrder(size)
              /\ Len(GetObjectCalls) = Len(ExpectedRanges(size, partSize))
              /\ fdPos = size

\* What the first n ranged reads returned, one body after the other.
RECURSIVE BodiesOf(_, _)
BodiesOf(G, n) == IF n = 0 THEN <<>> ELSE BodiesOf(G, n - 1) \o G[n].out

IsStableSortOf(t, s) ==
    \E p \in Perms(Len(s)) :
        /\ t = [k \in 1..Len(s) |-> s[p[k]]]
        /\ IsSortedByNumber(t)
        /\ \A a, b \in 1..Len(s) : (a < b /\ t[a].PartNumber = t[b].PartNumber) => p[a] < p[b]

\* C10: the part list CompleteMultipartUpload sends is its input in a stable
\* order: parts of the same PartNumber keep the order they were submitted in.
C10_FinalizeIsStable ==
    \A k \in CallIdx("CompleteMultipartUpload") : IsStableSortOf(calls[k].arg, partsIn)

\* sent holds exactly the elements of input, each as often as input does.
IsPermutationOf(sent, input) ==
    /\ Len(sent) = Len(input)
    /\ \E p \in Perms(Len(input)) : sent = [k \in 1..Len(input) |-> input[p[k]]]

DistinctOrdinals(s) == \A a, b \in 1..Len(s) : s[a].PartNumber = s[b].PartNumber => a = b

\* The parts of the set S in ascending PartNumber: a function of the set alone.
RECURSIVE AscendingOf(_)
AscendingOf(S) ==
    IF S = {} THEN <<>>
    ELSE LET m == CHOOSE x \in S : \A y \in S : x.PartNumber <= y.PartNumber
         IN <<m>> \o AscendingOf(S \ {m})

Elements(s) == {s[k] : k \in 1..Len(s)}

\* C11: the part list CompleteMultipartUpload sends holds exactly its input
\* parts (none dropped, deduplicated or added) in ascending PartNumber; an input
\* that is already ascending is sent unchanged; and an input of distinct
\* PartNumbers is sent as the one ascending sequence of its set of parts,
\* whatever order it came in.
C11_FinalizeIsCanonical ==
    \A k \in CallIdx("CompleteMultipartUpload") :
        LET sent == calls[k].arg IN
        /\ IsPermutationOf(sent, partsIn)
        /\ IsSortedByNumber(sent)
        /\ IsSortedByNumber(partsIn) => sent = partsIn
        /\ DistinctOrdinals(partsIn) => sent = AscendingOf(Elements(partsIn))

\* The part of C11 that holds of every call: the list sent is the input
\* rearranged into ascending PartNumber, and for distinct PartNumbers it is
\* unchanged when the input was ascending and depends on the set of parts only.
C11_HoldsUpToEqualOrdinals ==
    \A k \in CallIdx("CompleteMultipartUpload") :
        LET sent == calls[k].arg IN
        /\ IsPermutationOf(sent, partsIn)
        /\ IsSortedByNumber(sent)
        /\ DistinctOrdinals(partsIn) =>
              /\ IsSortedByNumber(partsIn) => sent = partsIn
              /\ sent = AscendingOf(Elements(partsIn))

\* The failed calls of the planner and of InitiateMultipartUpload.
FailedSetupIdx ==
    {k \in 1..Len(calls) :
        calls[k].fn \in {"SplitFileByPartSize", "InitiateMultipartUpload"} /\ ~calls[k].ok}

\* C12: if SplitFileByPartSize or InitiateMultipartUpload fails in UploadFile,
\* UploadFile returns that error at once: the failed call is the last call of
\* the run, and no UploadPartFromFile, CompleteMultipartUpload or
\* AbortMultipartUpload is ever issued.
C12_SetupFailureReturnsDirectly ==
    (op = "UploadFile" /\ FailedSetupIdx # {}) =>
        /\ \A k \in FailedSetupIdx : k = Len(calls) /\ ret = Err(calls[k].fn, 0)
        /\ pc = "done"
        /\ SessionIdx = {}

\* C12 witness: the planner gave three descriptors and InitiateMultipartUpload
\* failed.
C12_Witness ==
    /\ op = "UploadFile" /\ pc = "done"
    /\ Len(chunks) >= 3
    /\ ret = Err("InitiateMultipartUpload", 0)

\* InitiateMultipartUpload returned a session handle in this run.
SessionOpened == \E k \in CallIdx("InitiateMultipartUpload") : calls[k].ok

\* C13: a run of UploadFile that opened a session returns nil only after a
\* successful CompleteMultipartUpload, and returns an error only after
\* AbortMultipartUpload was called on the handle; it never returns with the
\* session neither completed nor aborted.
C13_SessionTerminatedBeforeReturn ==
    (op = "UploadFile" /\ SessionOpened /\ ret # Running) =>
        /\ ret = Nil =>
              \E k \in CallIdx("CompleteMultipartUpload") : calls[k].ok /\ calls[k].id = InitiatedID
        /\ ret # Nil =>
              \E k \in CallIdx("AbortMultipartUpload") : calls[k].id = InitiatedID
        /\ pc = "done"

\* C13 witness: the run returned the error of its second part upload, after
\* an Abort.
C13_Witness ==
    /\ op = "UploadFile" /\ SessionOpened
    /\ ret = Err("UploadPartFromFile", 2)
    /\ calls[Len(calls)].fn = "AbortMultipartUpload"

\* The UploadPartFromFile calls of the run, in order.
UploadPartCalls == SelectSeq(calls, LAMBDA c : c.fn = "UploadPartFromFile")

\* C14: the UploadPartFromFile calls of a run are a prefix of the descriptor
\* sequence, in its order: the k-th call transfers the k-th descriptor (same
\* offset, size and ordinal), so no descriptor is transferred twice, and every
\* call but the last one issued has returned successfully.
C14_PartsUploadedInPlannerOrder ==
    op = "UploadFile" =>
        LET U == UploadPartCalls IN
        /\ Len(U) <= Len(chunks)
        /\ \A k \in 1..Len(U) : U[k].arg = chunks[k]
        /\ \A k \in 1..(Len(U) - 1) : U[k].ok

\* C14 witness: three part uploads were issued, the third for a shorter last
\* descriptor.
C14_Witness ==
    /\ op = "UploadFile"
    /\ Len(UploadPartCalls) = 3 /\ Len(chunks) = 3
    /\ UploadPartCalls[3].arg.Size < partSize

\* C15: the part list UploadFile passes to CompleteMultipartUpload has one
\* PartResult per planned descriptor, in ascending order: N parts for N
\* descriptors, the c-th with PartNumber c and with the ETag the upload call of
\* descriptor c returned.
C15_CompleteGetsOneResultPerDescriptor ==
    op = "UploadFile" =>
        \A k \in CallIdx("CompleteMultipartUpload") :
            LET sent == calls[k].arg
                U == UploadPartCalls
            IN /\ Len(sent) = Len(chunks)
               /\ Len(U) = Len(chunks)
               /\ \A c \in 1..Len(sent) :
                     /\ sent[c].PartNumber = c
                     /\ chunks[c].Number = c
                     /\ U[c].arg.Number = c
                     /\ U[c].ok
                     /\ sent[c].ETag = U[c].out.ETag

\* C15 witness: Complete was called with three parts whose ETags differ.
C15_Witness ==
    /\ op = "UploadFile"
    /\ \E k \in CallIdx("CompleteMultipartUpload") :
          /\ Len(calls[k].arg) = 3
          /\ calls[k].arg[1].ETag # calls[k].arg[2].ETag

\* os.OpenFile returned the destination file in this run.
SinkOpened == \E k \in CallIdx("os.OpenFile") : calls[k].ok

\* C16: once DownloadFile has opened the destination file, it is open while the
\* run goes on and closed when the run has returned, whatever the exit (end of
\* the loop, failed GetObject, failed copy), and it is closed exactly once.
C16_SinkClosedOnEveryExit ==
    (op = "DownloadFile" /\ SinkOpened) =>
        /\ fdCloses <= 1
        /\ ret = Running => (fdState = "open" /\ fdCloses = 0)
        /\ ret # Running => (pc = "done" /\ fdState = "closed" /\ fdCloses = 1)

\* C16 witness: the copy of the second range failed after some bytes, and the
\* run returned that error with the file closed.
C16_Witness ==
    /\ op = "DownloadFile" /\ SinkOpened
    /\ ret = Err("io.CopyBuffer", 0)
    /\ Len(GetObjectCalls) = 2
    /\ fdPos > partSize
    /\ fdState = "closed"

\* C17: after CompleteMultipartUpload(imur, parts) has returned, the caller's
\* parts hold the same elements in the same order as before the call.
C17_FinalizeLeavesInputAlone ==
    (op = "CompleteMultipartUpload" /\ pc = "done") => parts = partsIn

\* C17 where the caller's list is already in strictly ascending order: the call
\* leaves it as it was.
C17_HoldsOnStrictlyAscendingInput ==
    (op = "CompleteMultipartUpload" /\ pc = "done"
        /\ IsSortedByNumber(partsIn) /\ DistinctOrdinals(partsIn)) => parts = partsIn

\* C18: DownloadFile returns nil only when it has written as many bytes as the
\* object holds; when the Content-Length of the probe is missing or is no
\* number, it returns an error.
C18_SuccessMeansWholeObjectWritten ==
    (op = "DownloadFile" /\ pc = "done" /\ SinkOpened) =>
        /\ ret = Nil => fdPos = size
        /\ ParseInt(meta).err => ret # Nil

\* C18 where the probe's Content-Length is the decimal size of the object: a
\* nil return comes with size bytes written.
C18_HoldsWhenSizeIsParsed ==
    (op = "DownloadFile" /\ pc = "done" /\ meta = Itoa(size) /\ ret = Nil) => fdPos = size

\* The Range options in a list of options.
RangeOptions(opts) == {k \in 1..Len(opts) : opts[k].name = "Range"}

\* C19: every GetObject request of DownloadFile carries exactly one Range
\* option, and the option list has the same length in every request.
C19_OneRangeOptionPerRequest ==
    op = "DownloadFile" =>
        LET G == GetObjectCalls IN
        \A k \in 1..Len(G) :
            /\ Cardinality(RangeOptions(G[k].arg)) = 1
            /\ Len(G[k].arg) = Len(G[1].arg)

\* C19 for the first request alone: it carries the caller's options and one
\* Range option.
C19_HoldsOfFirstRequest ==
    (op = "DownloadFile" /\ Len(GetObjectCalls) >= 1) =>
        Cardinality(RangeOptions(GetObjectCalls[1].arg)) = 1

\* C20: after DownloadFile has returned nil for an object whose size the probe
\* reported, the destination file holds exactly the object's bytes, whatever it
\* held before.
C20_FileIsExactlyTheObject ==
    (op = "DownloadFile" /\ pc = "done" /\ ret = Nil /\ meta = Itoa(size)) =>
        fileData = Bytes(0, size - 1)

\* C20 up to the length of the file: the first size bytes are the object's, and
\* where the file was not longer than the object before the call it is exactly
\* the object.
C20_HoldsOfLeadingBytes ==
    (op = "DownloadFile" /\ pc = "done" /\ ret = Nil /\ meta = Itoa(size)) =>
        /\ Len(fileData) >= size
        /\ SubSeq(fileData, 1, size) = Bytes(0, size - 1)
        /\ Len(file0) <= size => fileData = Bytes(0, size - 1)

====
